---- MODULE Spec2Model ----
(***************************************************************************)
(* Model of the PDF assembly of the Axis Technology Insurance Application  *)
(* (generatePDF in src/unnamed/part_000): cover generation, content        *)
(* rendering with the layout cursor, page accounting, table of contents,   *)
(* header/footer numbering, end-page fetch, merge and download.            *)
(*                                                                         *)
(* Lengths are millimetres (jsPDF default unit), rounded to integers: the  *)
(* A4 page height 297.0000833 is modelled as 297, which gives the same     *)
(* result for every comparison because all cursor values are integers.    *)
(* Text that comes from the catalogs (titles, questions, labels) is       *)
(* modelled as one wrapped line; text that comes from the answer record    *)
(* wraps to formData.textLines lines.                                      *)
(***************************************************************************)
EXTENDS Integers, Sequences, FiniteSets, TLC

VARIABLES
    formData,            \* the answer record returned by collectFormData()
    coverTemplatePages,  \* pages of ./pdf/front cover page.pdf
    endTemplatePages,    \* pages of ./pdf/end last page.pdf
    pc,                  \* position of generatePDF
    run,                 \* number of generatePDF invocations started so far
    clicks,              \* clicks on #downloadPdfBtn the user still makes
    yPosition,           \* layout cursor: vertical offset on the current page
    contentDoc,          \* pages of the content document
    sectionPageNumbers,  \* title -> recorded page number
    coverDoc,            \* frontCoverPdfBytes, as its pages
    tocEntries,          \* entries drawn on the ToC
    tocDoc,              \* tocPdfBytes, as its pages
    endDoc,              \* endPageBytes, as its pages
    finalPdf,            \* pages of the merged document
    downloads,           \* files handed to the browser, one per a.click()
    notification,        \* the notification currently shown
    corsModal,           \* whether the CORS modal was inserted
    error,               \* the error that reached the outer catch, or NoError
    failedAt,            \* the phase in which the error was thrown
    phasesDone,          \* phases of this run that completed
    prevToc,             \* ToC entries of the last earlier run that produced them
    sec,                 \* sections of the rendering order processed so far
    drawn,               \* what the last processed section drew, in order
    inv,                 \* invocation -> the locals of that generatePDF closure
    alone,               \* page table of generatePDF executed alone on formData
    currentStep,         \* wizard: the step shown
    totalSteps,          \* wizard: 13 + number of enabled conditional steps
    checkedSectors,      \* wizard: the checked sectors[] boxes
    answer,              \* wizard: the value of another form field
    storage,             \* localStorage item 'axisInsuranceForm', or NoSave
    pendingSaves,        \* wizard: setTimeout(saveProgress, 1000) not yet fired
    stepEnabled,         \* wizard: sectors whose aiStepEnabled, ... flag is set
    dom,                 \* wizard: section attributes and classes, button visibility
    pendingTriggers,     \* wizard: the deferred triggers of loadSavedData not yet run
    lastEvent            \* wizard: the last user event handled, where it is observed

pdfVars == <<formData, coverTemplatePages, endTemplatePages, pc, run, clicks,
             yPosition, contentDoc, sectionPageNumbers, coverDoc, tocEntries, tocDoc,
             endDoc, finalPdf, downloads, notification, corsModal, error,
             failedAt, phasesDone, prevToc>>

renderVars == <<sec, drawn>>

invVars == <<inv, alone>>

wizardVars == <<currentStep, totalSteps, checkedSectors, answer, storage, pendingSaves,
                stepEnabled, dom, pendingTriggers, lastEvent>>

vars == <<pdfVars, renderVars, invVars, wizardVars>>

----------------------------------------------------------------------------
(* Bounds of the model *)

MaxAnswerLines == 2     \* wrapped lines of the longest free-text answer
MaxTemplatePages == 2   \* pages of the longest static template
MaxRuns == 2            \* generatePDF invocations

----------------------------------------------------------------------------
(* Layout constants of generatePDF *)

PageHeight == 297
StartY == 50
Margin == 20
HeaderHeight == 45
LineHeight == 6

CoverOffset == 2        \* "+2 for front cover and ToC"
TotalOffset == 3        \* "+1 for front cover, +1 for ToC, +1 for end page"

TocStartY == 50
TocMargin == 20
TocLineHeight == 8
TocTitleGap == 15

(* jspdf-autotable: cell padding 3 on both sides of a text line of about 4, *)
(* default bottom margin 40pt = 14mm                                        *)
TableCellPadding == 3
TableLineHeight == 4
TableBottomMargin == 14

----------------------------------------------------------------------------
(* Sections and titles *)

Sectors == {"ai", "defi", "robotics"}

mainSections == <<
    "1. Sectors",
    "2. General Information",
    "3. Operations",
    "4. Financials",
    "5. Contractual Controls",
    "6. Cybersecurity, Technical & Crime Controls",
    "7. Data Backup & Business Continuity & Supply Chain Controls",
    "8. Third Party, Vendor & Supply Chain Controls",
    "9. Privacy, Data Security & API Controls",
    "10. Intellectual Property & Content Governance Controls",
    "11. People, Employment Practices & Insider Controls",
    "12. Artificial Intelligence Tools & Controls",
    "13. Prior Incidents & Claims" >>

AiTitle == "Additional Questions: Artificial Intelligence"
DefiTitle == "Additional Questions: Decentralized Finance & Digital Assets"
RoboticsTitle == "Additional Questions: Autonomous Robotics"

NumMain == Len(mainSections)
NumSections == NumMain + 3

(* Sections 14, 15, 16 are the conditional sections in the order of the    *)
(* three if-statements of generatePDF.                                     *)
SectorOf(k) == IF k = NumMain + 1 THEN "ai"
               ELSE IF k = NumMain + 2 THEN "defi" ELSE "robotics"

SectionTitle(k) == IF k <= NumMain THEN mainSections[k]
                   ELSE IF k = NumMain + 1 THEN AiTitle
                   ELSE IF k = NumMain + 2 THEN DefiTitle ELSE RoboticsTitle

AllTitles == {SectionTitle(k) : k \in 1..NumSections}

----------------------------------------------------------------------------
(* The answer record.  collectFormData() is outside src/; the records      *)
(* explored are those of a form filled in wizard order: the sections up to *)
(* filledUpTo hold answers, the later ones are empty.  Every free-text     *)
(* answer of a filled section wraps to textLines lines, and every choice   *)
(* of a filled section either equals its follow-up trigger or differs.     *)

AnswerRecords ==
    [sectors : SUBSET Sectors,
     filledUpTo : 1..NumSections,
     textLines : 1..MaxAnswerLines,
     radio : {"trigger", "other"}]

Filled(fd, k) == k <= fd.filledUpTo

(* A follow-up drawn whenever the section holds answers *)
TriggeredWhenFilled(fd, k) == Filled(fd, k)

Triggered(fd, k) == Filled(fd, k) /\ fd.radio = "trigger"

----------------------------------------------------------------------------
(* Layout cursor: y is yPosition, n is contentDoc.internal.getNumberOfPages *)

(* A page that is never broken *)
checkPageBreakOff(L, additionalHeight) == L

checkPageBreak(L, additionalHeight) ==
    IF L.y + additionalHeight > PageHeight - Margin
    THEN [L EXCEPT !.n = @ + 1, !.y = HeaderHeight + 5]
    ELSE L

RECURSIVE addWrappedText(_, _)
addWrappedText(L, lines) ==
    IF lines = 0 THEN L
    ELSE LET B == checkPageBreak(L, 15)
         IN  addWrappedText([B EXCEPT !.y = @ + LineHeight], lines - 1)

addSectionTitle(L) ==
    LET T == addWrappedText(L, 1) IN [T EXCEPT !.y = @ + 5]

(* contentDoc.autoTable({startY: yPosition + 5, margin.top: headerHeight+5}) *)
(* followed by yPosition = lastAutoTable.finalY + 10: a row that does not   *)
(* fit above the table's bottom margin starts a new page at margin.top.     *)
RECURSIVE TableRows(_, _, _)
TableRows(L, rows, rowHeight) ==
    IF rows = 0 THEN L
    ELSE LET B == IF L.y + rowHeight > PageHeight - TableBottomMargin
                  THEN [L EXCEPT !.n = @ + 1, !.y = HeaderHeight + 5]
                  ELSE L
         IN  TableRows([B EXCEPT !.y = @ + rowHeight], rows - 1, rowHeight)

autoTable(L, bodyRows, cellLines) ==
    LET S == [L EXCEPT !.y = @ + 5]
        H == TableRows(S, 1, 2 * TableCellPadding + TableLineHeight)
        F == TableRows(H, bodyRows, 2 * TableCellPadding + cellLines * TableLineHeight)
    IN  [F EXCEPT !.y = @ + 10]

----------------------------------------------------------------------------
(* Question catalogs, reduced to what they draw.  An item is one step of   *)
(* a question's rendering; an entry has the items always drawn (body) and  *)
(* the items drawn when the follow-up is triggered (fu).                   *)

Brk(h) == [op |-> "brk", v |-> h]     \* checkPageBreak(h)
Gap(g) == [op |-> "gap", v |-> g]     \* yPosition += g
Fix(n) == [op |-> "fix", v |-> n]     \* n catalog texts, one line each
Ans    == [op |-> "ans", v |-> 0]     \* value, or its placeholder line
Opt    == [op |-> "opt", v |-> 0]     \* value, or nothing when absent
Sel    == [op |-> "sel", v |-> 0]     \* renderSelectedRadioOption
Tbl(r) == [op |-> "tbl", v |-> r]     \* table of r one-line body rows
TblW(r) == [op |-> "tblw", v |-> r]   \* table whose cells are not truncated

Rep(n, e) == [i \in 1..n |-> e]

Text == [body |-> <<Ans>>, fu |-> <<>>]
Radio == [body |-> <<Sel>>, fu |-> <<>>]
RadioFu(f) == [body |-> <<Sel>>, fu |-> f]
Composite(n, item) == [body |-> Rep(n, item), fu |-> <<>>]
Table(h, t) == [body |-> <<Brk(h), t>>, fu |-> <<>>]
Checkbox(n, f) == [body |-> <<Fix(n)>>, fu |-> f]

section2Questions ==
    Rep(8, Text)
    \o <<RadioFu(<<Gap(2), Fix(1), Ans>>), Composite(4, Ans)>>
    \o Rep(4, RadioFu(<<Gap(2), Fix(1), Ans>>))

section3Questions ==
    <<Text, Table(30, Tbl(5)), Table(35, TblW(11)),
      RadioFu(<<Gap(2), Ans, Ans>>),
      RadioFu(<<Gap(2), Ans>>),
      RadioFu(<<Gap(2), Fix(1), Fix(1), Ans, Ans>>),
      RadioFu(<<Gap(2), Ans>>),
      RadioFu(<<Gap(2), Ans>>),
      Text, Table(25, Tbl(3))>>

section4Questions ==
    <<Text, Table(30, Tbl(3)), Text, Text, Text,
      RadioFu(<<Gap(2), Ans>>), Table(25, Tbl(3)), Text>>

section5Questions == Rep(4, Radio) \o Rep(2, Text)

section6Questions ==
    Rep(10, Radio)
    \o <<Text, RadioFu(<<Gap(3), Fix(1), Opt>>), Text, Text,
         Composite(4, Opt), Text, Radio, Radio>>

section7Questions ==
    Rep(6, Radio) \o <<RadioFu(<<Gap(3), Fix(1), Opt>>)>> \o Rep(3, Radio)

section8Questions == Rep(9, Radio)

section9Questions ==
    <<RadioFu(<<Gap(5), Fix(1), Gap(3), Opt, Opt, Opt, Opt, Opt, Opt>>)>>
    \o Rep(10, Radio)

section10Questions == Rep(8, Radio)
section11Questions == Rep(6, Radio)
section12Questions == Rep(8, Radio)

section13Questions ==
    <<RadioFu(<<Gap(5), Fix(1), Gap(3), Ans>>),
      Checkbox(7, <<Gap(5), Fix(1), Gap(3), Ans>>),
      Radio>>

aiQuestions ==
    Rep(4, RadioFu(<<Gap(3), Fix(1), Gap(2), Ans>>))
    \o <<Radio, RadioFu(<<Gap(3), Fix(1), Gap(2), Ans>>)>>
    \o Rep(4, Radio)

defiQuestions ==
    <<RadioFu(<<Gap(3), Fix(1), Gap(2), Ans>>),
      RadioFu(<<Gap(3), Fix(1), Gap(2), Opt, Opt, Opt>>)>>
    \o Rep(6, RadioFu(<<Gap(3), Fix(1), Gap(2), Ans>>))
    \o <<Text, RadioFu(<<Gap(3), Fix(1), Gap(2), Ans>>), Radio>>
    \o Rep(3, RadioFu(<<Gap(3), Fix(1), Gap(2), Ans>>))
    \o <<Text>> \o Rep(4, Radio)
    \o <<RadioFu(<<Gap(3), Fix(1), Gap(2), Ans>>)>>

roboticsQuestions ==
    <<Text, Radio, Text, Radio, Radio, Radio,
      Checkbox(6, <<Gap(3), Fix(1), Gap(2), Ans>>),
      Radio, RadioFu(<<Gap(3), Fix(1), Gap(2), Ans>>), Radio, Text>>
    \o Rep(7, Radio) \o <<Checkbox(3, <<>>), Radio>>

Catalog(k) ==
    CASE k = 2 -> section2Questions
      [] k = 3 -> section3Questions
      [] k = 4 -> section4Questions
      [] k = 5 -> section5Questions
      [] k = 6 -> section6Questions
      [] k = 7 -> section7Questions
      [] k = 8 -> section8Questions
      [] k = 9 -> section9Questions
      [] k = 10 -> section10Questions
      [] k = 11 -> section11Questions
      [] k = 12 -> section12Questions
      [] k = 13 -> section13Questions
      [] k = 14 -> aiQuestions
      [] k = 15 -> defiQuestions
      [] k = 16 -> roboticsQuestions

(* checkPageBreak height at the head of a question, and the gap after the  *)
(* question text, as written in each section's forEach.                    *)
QuestionBreak(k) == IF k \in 8..13 THEN 30 ELSE 15
QuestionGap(k) == IF k \in 2..7 THEN 2 ELSE 3

----------------------------------------------------------------------------
(* Rendering of a section onto the content document *)

AnsLines(fd, k) == IF Filled(fd, k) THEN fd.textLines ELSE 1
OptLines(fd, k) == IF Filled(fd, k) THEN fd.textLines ELSE 0
CellLines(fd, k) == IF Triggered(fd, k) THEN fd.textLines ELSE 1

RenderItem(L, item, fd, k) ==
    CASE item.op = "brk" -> checkPageBreak(L, item.v)
      [] item.op = "gap" -> [L EXCEPT !.y = @ + item.v]
      [] item.op = "fix" -> addWrappedText(L, item.v)
      [] item.op = "ans" -> addWrappedText(L, AnsLines(fd, k))
      [] item.op = "opt" -> addWrappedText(L, OptLines(fd, k))
      [] item.op = "sel" -> addWrappedText(L, 1)
      [] item.op = "tbl" -> autoTable(L, item.v, 1)
      [] item.op = "tblw" -> autoTable(L, item.v, CellLines(fd, k))

(* The page count never decreases; testing it makes each step's cursor be  *)
(* computed before the next step starts.                                    *)
RECURSIVE RenderItems(_, _, _, _)
RenderItems(L, items, fd, k) ==
    IF items = <<>> THEN L
    ELSE LET N == RenderItem(L, Head(items), fd, k)
         IN  IF N.n >= L.n THEN RenderItems(N, Tail(items), fd, k) ELSE N

(* One iteration of a section's questions.forEach *)
QuestionItems(q, fd, k) ==
    <<Brk(QuestionBreak(k)), Fix(1), Gap(QuestionGap(k))>>
    \o q.body
    \o (IF Triggered(fd, k) THEN q.fu ELSE <<>>)
    \o <<Gap(8)>>

RECURSIVE RenderQuestions(_, _, _, _)
RenderQuestions(L, qs, fd, k) ==
    IF qs = <<>> THEN L
    ELSE LET N == RenderItems(L, QuestionItems(Head(qs), fd, k), fd, k)
         IN  IF N.n >= L.n THEN RenderQuestions(N, Tail(qs), fd, k) ELSE N

(* Section 1 is drawn inline by generatePDF: title, question, gap 3, one   *)
(* marker line per sector option, gap 10.                                  *)
section1Items == <<Fix(1), Gap(3), Fix(3), Gap(10)>>

(* The cursor when the section title is drawn: checkPageBreak(20), then    *)
(* the checkPageBreak() of addWrappedText's first line.                    *)
TitleCursor(L) == checkPageBreak(checkPageBreak(L, 20), 15)

(* addSectionNWithQuestions(sectionData), and the inline section 1 *)
RenderSection(L, fd, k) ==
    LET T == addSectionTitle(checkPageBreak(L, 20))
    IN  IF k = 1 THEN RenderItems(T, section1Items, fd, k)
        ELSE LET Q == RenderQuestions(T, Catalog(k), fd, k)
             IN  [Q EXCEPT !.y = @ + 5]

(* getNumberOfPages() at the assignment to sectionPageNumbers: section 1   *)
(* calls checkPageBreak(20) before the assignment, sections 2.. call it    *)
(* inside addSectionNWithQuestions, after the assignment.                  *)
PagesAtRecord(L, k) == IF k = 1 THEN checkPageBreak(L, 20).n ELSE L.n

(* The cursor offset recorded in place of the page count *)
RecordedCursor(L, k) == L.y + CoverOffset

RecordedPage(L, k) == PagesAtRecord(L, k) + CoverOffset

----------------------------------------------------------------------------
(* Documents are sequences of pages.  A page remembers the document it was *)
(* created in and its index there, the section titles drawn on it, the     *)
(* footer <<X, Y>> of "Page X of Y" (<<>> when none) and the submission     *)
(* time stamped on it by the cover overlay (0 when none).                  *)

Page(src, idx) ==
    [src |-> src, idx |-> idx, titles |-> {}, footer |-> <<>>, stamp |-> 0]

(* A content document kept from the previous invocation *)
StaleContentDoc ==
    IF contentDoc = <<>> THEN <<Page("content", 1)>> ELSE contentDoc

(* new jsPDF(): a document with one blank page *)
NewContentDoc == <<Page("content", 1)>>

(* contentDoc after the layout reached n pages: addPage() appends *)
ExtendTo(doc, n) ==
    [i \in 1..n |-> IF i <= Len(doc) THEN doc[i] ELSE Page("content", i)]

DrawTitle(doc, i, title) ==
    [doc EXCEPT ![i].titles = @ \cup {title}]

EmptyTable == <<>>
Put(table, key, value) ==
    [t \in DOMAIN table \cup {key} |-> IF t = key THEN value ELSE table[t]]

----------------------------------------------------------------------------
(* Errors and notifications.  A message is its sequence of words, and      *)
(* String.prototype.includes is containment of a contiguous word sequence. *)

includes(message, needle) ==
    \E i \in 1..(Len(message) - Len(needle) + 1) :
        SubSeq(message, i, i + Len(needle) - 1) = needle

NoError == [name |-> "none", message |-> <<>>]

(* What fetch() rejects with on a network failure: a TypeError whose       *)
(* message depends on the browser.                                         *)
FetchErrors ==
    { [name |-> "TypeError", message |-> <<"Failed", "to", "fetch">>],
      [name |-> "TypeError",
       message |-> <<"NetworkError", "when", "attempting", "to", "fetch", "resource", ".">>],
      [name |-> "TypeError", message |-> <<"Load", "failed">>] }

BadStatuses == {"404", "500"}

EndPageNotOkError(status) ==
    [name |-> "Error",
     message |-> <<"Failed", "to", "load", "end", "page", "PDF", ":", status>>]

CorsError ==
    [name |-> "Error",
     message |-> <<"CORS", "Error", ":", "PDF", "files", "cannot", "be", "loaded", ".",
                   "Please", "run", "on", "HTTP", "server", ".">>]

(* PDFDocument.load on bytes that are not a PDF *)
ParseError ==
    [name |-> "Error",
     message |-> <<"Failed", "to", "parse", "PDF", "document">>]

NWelcome == "Welcome! Your progress will be automatically saved."
NGenerating == "Generating PDF with static cover and end pages..."
NLoading == "Loading and merging static PDF files..."
NCors == "CORS Error: Please run this application on an HTTP server"
NCouldNotLoad == "Error: Could not load static PDF files."
NGeneric == "Error generating PDF. Please try again."
NSuccess == "Axis Technology Insurance Application PDF downloaded successfully!"

(* The catch block of the end-page fetch: the error it throws on *)
IsCorsError(e) ==
    includes(e.message, <<"fetch">>) \/ e.name = "TypeError"

EndFetchRethrown(e) == IF IsCorsError(e) THEN CorsError ELSE e

(* A catch block that knows only the generic failure *)
CatchNotificationGeneric(e, shown) ==
    IF includes(e.message, <<"CORS", "Error">>) THEN shown ELSE NGeneric

(* The catch block of generatePDF: the notification it leaves shown *)
CatchNotification(e, shown) ==
    IF includes(e.message, <<"CORS", "Error">>) THEN shown
    ELSE IF includes(e.message, <<"Failed", "to", "load">>)
            /\ includes(e.message, <<"PDF">>)
         THEN NCouldNotLoad
         ELSE NGeneric

----------------------------------------------------------------------------
(* generateTableOfContents(sectionPages) *)

(* if (sectionPages[title]): an entry that is present and not 0 *)
HasPage(sectionPages, title) ==
    title \in DOMAIN sectionPages /\ sectionPages[title] # 0

Entry(sectionPages, title) == [title |-> title, page |-> sectionPages[title]]

ConditionalEntry(sectionPages, fd, sector, title) ==
    IF sector \in fd.sectors /\ HasPage(sectionPages, title)
    THEN <<Entry(sectionPages, title)>>
    ELSE <<>>

MainEntries(sectionPages) ==
    LET kept == SelectSeq(mainSections, LAMBDA t : HasPage(sectionPages, t))
    IN  [i \in 1..Len(kept) |-> Entry(sectionPages, kept[i])]

(* The conditional entries pushed in another order *)
TocEntriesDefiFirst(sectionPages, fd) ==
    MainEntries(sectionPages)
    \o ConditionalEntry(sectionPages, fd, "defi", DefiTitle)
    \o ConditionalEntry(sectionPages, fd, "ai", AiTitle)
    \o ConditionalEntry(sectionPages, fd, "robotics", RoboticsTitle)

TocEntries(sectionPages, fd) ==
    MainEntries(sectionPages)
    \o ConditionalEntry(sectionPages, fd, "ai", AiTitle)
    \o ConditionalEntry(sectionPages, fd, "defi", DefiTitle)
    \o ConditionalEntry(sectionPages, fd, "robotics", RoboticsTitle)

(* tocEntries.forEach: the ToC's own page break *)
RECURSIVE TocLayout(_, _)
TocLayout(L, entries) ==
    IF entries = 0 THEN L
    ELSE LET B == IF L.y + TocLineHeight > PageHeight - TocMargin
                  THEN [L EXCEPT !.n = @ + 1, !.y = TocStartY]
                  ELSE L
         IN  TocLayout([B EXCEPT !.y = @ + TocLineHeight], entries - 1)

(* The entry loop started so low that a fourteenth entry breaks the page *)
TocPageCountLowStart(entries) ==
    TocLayout([y |-> PageHeight - TocMargin - TocLineHeight * NumMain, n |-> 1],
              Len(entries)).n

TocPageCount(entries) ==
    TocLayout([y |-> TocStartY + TocTitleGap, n |-> 1], Len(entries)).n

TocDocument(entries) == [i \in 1..TocPageCount(entries) |-> Page("toc", i)]

----------------------------------------------------------------------------
(* Header/footer loop over the content pages *)

FooterOf(i, pageCount) == <<i + CoverOffset, pageCount + TotalOffset>>

WithFooters(doc) == [i \in 1..Len(doc) |-> [doc[i] EXCEPT !.footer = FooterOf(i, Len(doc))]]

----------------------------------------------------------------------------
(* Cover generation and merge with pdf-lib *)

(* The template's pages with the overlay stamped on the first one *)
FrontCover(templatePages, submittedAt) ==
    [i \in 1..templatePages |->
        IF i = 1 THEN [Page("cover", i) EXCEPT !.stamp = submittedAt]
        ELSE Page("cover", i)]

EndPages(templatePages) == [i \in 1..templatePages |-> Page("end", i)]

(* Indices that stop one page short *)
getPageIndicesShort(doc) == [i \in 1..(Len(doc) - 1) |-> i]

getPageIndices(doc) == [i \in 1..Len(doc) |-> i]

copyPages(doc, indices) == [j \in 1..Len(indices) |-> doc[indices[j]]]

(* pages.forEach((page) => finalPdf.addPage(page)) *)
RECURSIVE addPages(_, _)
addPages(final, pages) ==
    IF pages = <<>> THEN final
    ELSE addPages(Append(final, Head(pages)), Tail(pages))

MergedPdf(cover, toc, content, end) ==
    LET f1 == addPages(<<>>, copyPages(cover, getPageIndices(cover)))
        f2 == addPages(f1, copyPages(toc, getPageIndices(toc)))
        f3 == addPages(f2, copyPages(content, getPageIndices(content)))
    IN  addPages(f3, copyPages(end, getPageIndices(end)))

----------------------------------------------------------------------------
(* Content rendering of generatePDF: for each section of the rendering     *)
(* order the page record, then the section.  C is the cursor y, the        *)
(* content document doc and the page table.                                *)

Rendered(fd, k) == k <= NumMain \/ SectorOf(k) \in fd.sectors

RenderNext(C, fd, k) ==
    LET L == [y |-> C.y, n |-> Len(C.doc)]
        R == RenderSection(L, fd, k)
    IN  IF Rendered(fd, k)
        THEN [y |-> R.y,
              doc |-> DrawTitle(ExtendTo(C.doc, R.n), TitleCursor(L).n, SectionTitle(k)),
              table |-> Put(C.table, SectionTitle(k), RecordedPage(L, k))]
        ELSE C

RECURSIVE RenderFrom(_, _, _)
RenderFrom(C, fd, k) ==
    IF k > NumSections THEN C
    ELSE LET N == RenderNext(C, fd, k)
         IN  IF Len(N.doc) >= Len(C.doc) THEN RenderFrom(N, fd, k + 1) ELSE N

RenderContent(doc, fd) ==
    RenderFrom([y |-> HeaderHeight + 5, doc |-> doc, table |-> EmptyTable], fd, 1)

----------------------------------------------------------------------------
(* The state machine of generatePDF.  An action is the code between two    *)
(* awaits.                                                                 *)

(* The locals of a generatePDF closure: its position, layout cursor,       *)
(* content document and page table.                                        *)
Invocations == {1, 2}

NoLocals == [pc |-> "idle", yPosition |-> StartY, contentDoc |-> <<>>,
             sectionPageNumbers |-> EmptyTable]

InitIdleInvocations ==
    /\ inv = [i \in Invocations |-> NoLocals]
    /\ alone = EmptyTable

NoSave == [currentStep |-> 0, formData |-> <<>>]

(* The page as document.ready leaves it when nothing is restored: section *)
(* 1 active, no step number on the conditional sections, and the buttons   *)
(* as updateNavigation sets them on step 1.                                *)
InitialDom ==
    [dataSection |-> [s \in Sectors |-> 0],
     active |-> {1},
     prevBtn |-> FALSE,
     nextBtn |-> TRUE,
     submitBtn |-> FALSE]

NoEvent == [handler |-> "none", target |-> 0, validated |-> "notRun"]

(* let currentStep = 1; let totalSteps = 13; an empty form, nothing saved *)
InitIdleWizard ==
    /\ currentStep = 1
    /\ totalSteps = NumMain
    /\ checkedSectors = {}
    /\ answer = ""
    /\ storage = NoSave
    /\ pendingSaves = 0
    /\ stepEnabled = {}
    /\ dom = InitialDom
    /\ pendingTriggers = FALSE
    /\ lastEvent = NoEvent

InitRun ==
    /\ run = 0
    /\ yPosition = StartY
    /\ contentDoc = <<>>
    /\ sectionPageNumbers = EmptyTable
    /\ coverDoc = <<>>
    /\ tocEntries = <<>>
    /\ tocDoc = <<>>
    /\ endDoc = <<>>
    /\ finalPdf = <<>>
    /\ downloads = <<>>
    /\ notification = NWelcome
    /\ corsModal = FALSE
    /\ error = NoError
    /\ failedAt = "none"
    /\ phasesDone = {}
    /\ prevToc = <<>>
    /\ sec = 0
    /\ drawn = <<>>
    /\ InitIdleInvocations
    /\ InitIdleWizard

Init ==
    /\ formData \in AnswerRecords
    /\ coverTemplatePages \in 1..MaxTemplatePages
    /\ endTemplatePages \in 1..MaxTemplatePages
    /\ clicks = 1
    /\ pc = "idle"
    /\ InitRun

templates == <<formData, coverTemplatePages, endTemplatePages>>

(* Click on #downloadPdfBtn: generatePDF runs up to the await of the cover *)
(* template fetch.  The locals of an earlier invocation are gone.          *)
StartGenerate ==
    /\ pc \in {"idle", "done", "failed"}
    /\ clicks > 0
    /\ clicks' = clicks - 1
    /\ run' = run + 1
    /\ pc' = "coverFetch"
    /\ notification' = NGenerating
    /\ contentDoc' = NewContentDoc
    /\ yPosition' = StartY
    /\ sectionPageNumbers' = EmptyTable
    /\ coverDoc' = <<>>
    /\ tocEntries' = <<>>
    /\ tocDoc' = <<>>
    /\ endDoc' = <<>>
    /\ finalPdf' = <<>>
    /\ error' = NoError
    /\ failedAt' = "none"
    /\ phasesDone' = {}
    /\ prevToc' = IF tocEntries # <<>> THEN tocEntries ELSE prevToc
    /\ UNCHANGED <<templates, downloads, corsModal>>
    /\ UNCHANGED renderVars
    /\ UNCHANGED <<invVars, wizardVars>>

(* A catch block that swallows the error: control falls through to the merge *)
AfterEndFetchCatchSwallowed == "merge"

(* Where control goes after the catch block of the end-page fetch: both    *)
(* its branches throw.                                                     *)
AfterEndFetchCatch == "failed"

(* An error reaches the catch block of generatePDF *)
Caught(e, phase, shown) ==
    /\ pc' = (IF phase = "endFetch" THEN AfterEndFetchCatch ELSE "failed")
    /\ error' = e
    /\ failedAt' = phase
    /\ notification' = CatchNotification(e, shown)

(* generateFrontCover: fetch('./pdf/front cover page.pdf') rejects *)
CoverFetchThrows ==
    /\ pc = "coverFetch"
    /\ \E e \in FetchErrors : Caught(e, "coverFetch", notification)
    /\ UNCHANGED <<templates, run, clicks, yPosition, contentDoc, sectionPageNumbers,
                   coverDoc, tocEntries, tocDoc, endDoc, finalPdf, downloads,
                   corsModal, phasesDone, prevToc>>
    /\ UNCHANGED renderVars
    /\ UNCHANGED <<invVars, wizardVars>>

(* generateFrontCover: the response is not a PDF (res.ok is not tested),   *)
(* PDFDocument.load throws                                                 *)
CoverParseFails ==
    /\ pc = "coverFetch"
    /\ Caught(ParseError, "coverLoad", notification)
    /\ UNCHANGED <<templates, run, clicks, yPosition, contentDoc, sectionPageNumbers,
                   coverDoc, tocEntries, tocDoc, endDoc, finalPdf, downloads,
                   corsModal, phasesDone, prevToc>>
    /\ UNCHANGED renderVars
    /\ UNCHANGED <<invVars, wizardVars>>

(* generateFrontCover returns.  The sections are rendered and recorded,    *)
(* the ToC is generated from the page table, the footers are drawn on the  *)
(* content pages, and generatePDF awaits the end-page fetch.               *)
RenderContentAndToc ==
    /\ pc = "coverFetch"
    /\ coverDoc' = FrontCover(coverTemplatePages, run)
    /\ \E C \in {RenderContent(contentDoc, formData)} :
          /\ yPosition' = C.y
          /\ sectionPageNumbers' = C.table
          /\ tocEntries' = TocEntries(C.table, formData)
          /\ tocDoc' = TocDocument(TocEntries(C.table, formData))
          /\ contentDoc' = WithFooters(C.doc)
    /\ phasesDone' = phasesDone \cup {"cover", "content", "toc"}
    /\ notification' = NLoading
    /\ pc' = "endFetch"
    /\ UNCHANGED <<templates, run, clicks, endDoc, finalPdf, downloads, corsModal,
                   error, failedAt, prevToc>>
    /\ UNCHANGED renderVars
    /\ UNCHANGED <<invVars, wizardVars>>

(* fetch('./pdf/end last page.pdf') rejects, or the response is not OK *)
EndFetchFails ==
    /\ pc = "endFetch"
    /\ \E e \in FetchErrors \cup {EndPageNotOkError(st) : st \in BadStatuses} :
          /\ Caught(EndFetchRethrown(e), "endFetch",
                    IF IsCorsError(e) THEN NCors ELSE notification)
          /\ corsModal' = (corsModal \/ IsCorsError(e))
    /\ UNCHANGED <<templates, run, clicks, yPosition, contentDoc, sectionPageNumbers,
                   coverDoc, tocEntries, tocDoc, endDoc, finalPdf, downloads,
                   phasesDone, prevToc>>
    /\ UNCHANGED renderVars
    /\ UNCHANGED <<invVars, wizardVars>>

EndFetched ==
    /\ pc = "endFetch"
    /\ endDoc' = EndPages(endTemplatePages)
    /\ phasesDone' = phasesDone \cup {"endFetch"}
    /\ pc' = "merge"
    /\ UNCHANGED <<templates, run, clicks, yPosition, contentDoc, sectionPageNumbers,
                   coverDoc, tocEntries, tocDoc, finalPdf, downloads, notification,
                   corsModal, error, failedAt, prevToc>>
    /\ UNCHANGED renderVars
    /\ UNCHANGED <<invVars, wizardVars>>

(* PDFDocument.load of one of the four byte arrays throws *)
MergeFails ==
    /\ pc = "merge"
    /\ Caught(ParseError, "merge", notification)
    /\ UNCHANGED <<templates, run, clicks, yPosition, contentDoc, sectionPageNumbers,
                   coverDoc, tocEntries, tocDoc, endDoc, finalPdf, downloads,
                   corsModal, phasesDone, prevToc>>
    /\ UNCHANGED renderVars
    /\ UNCHANGED <<invVars, wizardVars>>

(* copyPages and addPage for the four documents, finalPdf.save(), then     *)
(* a.click() on the blob URL and the success notification                  *)
MergeAndDownload ==
    /\ pc = "merge"
    /\ finalPdf' = MergedPdf(coverDoc, tocDoc, contentDoc, endDoc)
    /\ phasesDone' = phasesDone \cup {"merge"}
    /\ downloads' = Append(downloads, [run |-> run, pages |-> finalPdf'])
    /\ notification' = NSuccess
    /\ pc' = "done"
    /\ UNCHANGED <<templates, run, clicks, yPosition, contentDoc, sectionPageNumbers,
                   coverDoc, tocEntries, tocDoc, endDoc, corsModal, error, failedAt,
                   prevToc>>
    /\ UNCHANGED renderVars
    /\ UNCHANGED <<invVars, wizardVars>>

Next ==
    \/ StartGenerate
    \/ CoverFetchThrows
    \/ CoverParseFails
    \/ RenderContentAndToc
    \/ EndFetchFails
    \/ EndFetched
    \/ MergeFails
    \/ MergeAndDownload

Spec == Init /\ [][Next]_vars

----------------------------------------------------------------------------
(* Two invocations on the same answer record and the same templates *)

InitRerun ==
    /\ formData \in AnswerRecords
    /\ coverTemplatePages = 1
    /\ endTemplatePages = 1
    /\ clicks = MaxRuns
    /\ pc = "idle"
    /\ InitRun

SpecRerun == InitRerun /\ [][Next]_vars

----------------------------------------------------------------------------
(* generateTableOfContents applied to an arbitrary page table *)

MaxMissing == 1         \* titles without a page record

PageTables ==
    {[t \in AllTitles \ missing |-> CoverOffset + 1] :
        missing \in {m \in SUBSET AllTitles : Cardinality(m) <= MaxMissing}}

InitToc ==
    /\ formData \in {fd \in AnswerRecords :
                        fd.filledUpTo = 1 /\ fd.textLines = 1 /\ fd.radio = "other"}
    /\ coverTemplatePages = 1
    /\ endTemplatePages = 1
    /\ clicks = 0
    /\ pc = "tocInput"
    /\ run = 1
    /\ yPosition = StartY
    /\ contentDoc = NewContentDoc
    /\ sectionPageNumbers \in PageTables
    /\ coverDoc = <<>>
    /\ tocEntries = <<>>
    /\ tocDoc = <<>>
    /\ endDoc = <<>>
    /\ finalPdf = <<>>
    /\ downloads = <<>>
    /\ notification = NGenerating
    /\ corsModal = FALSE
    /\ error = NoError
    /\ failedAt = "none"
    /\ phasesDone = {"cover", "content"}
    /\ prevToc = <<>>
    /\ sec = NumSections
    /\ drawn = <<>>
    /\ InitIdleInvocations
    /\ InitIdleWizard

ApplyGenerateToc ==
    /\ pc = "tocInput"
    /\ tocEntries' = TocEntries(sectionPageNumbers, formData)
    /\ tocDoc' = TocDocument(TocEntries(sectionPageNumbers, formData))
    /\ pc' = "tocOutput"
    /\ UNCHANGED <<templates, run, clicks, yPosition, contentDoc, sectionPageNumbers,
                   coverDoc, endDoc, finalPdf, downloads, notification, corsModal,
                   error, failedAt, phasesDone, prevToc>>
    /\ UNCHANGED renderVars
    /\ UNCHANGED <<invVars, wizardVars>>

NextToc == ApplyGenerateToc

SpecToc == InitToc /\ [][NextToc]_vars

----------------------------------------------------------------------------
(* What a section draws.  An event is one step of the rendering: a line of *)
(* text drawn by addWrappedText, or a change of the cursor.  by, bn are    *)
(* the cursor before the step, y, n the offset and page at which the text  *)
(* is drawn, after the offset the step leaves.  q is the question, i the   *)
(* position of the item in the question's items, fu whether the item       *)
(* belongs to the follow-up.                                               *)

(* formData = {}: no sectors list and no section sub-record.  The fields   *)
(* other than filledUpTo are not read for this record.                     *)
EmptyRecord == [sectors |-> {}, filledUpTo |-> 0, textLines |-> 1, radio |-> "other"]

HasSectorsList(fd) == fd # EmptyRecord
HasSubRecord(fd, k) == fd # EmptyRecord

(* sectionData ? sectionData[q.field] : null guards the first read of      *)
(* sections 8..13 and of the conditional sections; sections 2..7 read      *)
(* sectionData[q.field] and section 1 calls formData.sectors.includes.     *)
NullGuarded(k) == k >= 8

TypeErrorUndefined ==
    [name |-> "TypeError",
     message |-> <<"Cannot", "read", "properties", "of", "undefined">>]

SectionThrows(fd, k) ==
    IF k = 1 THEN ~HasSectorsList(fd)
    ELSE ~HasSubRecord(fd, k) /\ ~NullGuarded(k)

SelectedMarker == "U+2611"
UnselectedMarker == "U+2610"
Absent == "undefined"

(* The options of a single-choice question: the follow-up condition 'yes'  *)
(* and another declared value.                                             *)
RadioOptions == <<[value |-> "yes", label |-> "Yes"], [value |-> "no", label |-> "No"]>>

StoredChoice(fd, k) ==
    IF ~Filled(fd, k) THEN Absent
    ELSE IF fd.radio = "trigger" THEN "yes" ELSE "no"

(* options.find(option => selectedValue === option.value), then the text  *)
(* handed to addWrappedText                                                *)
renderSelectedRadioOption(selectedValue, options) ==
    LET found == {j \in 1..Len(options) : options[j].value = selectedValue}
    IN  IF found # {}
        THEN <<SelectedMarker, options[CHOOSE j \in found : \A h \in found : j <= h].label>>
        ELSE <<"No selection">>

LineKinds == {"title", "question", "label", "selected", "noSelection", "answer", "placeholder"}

Proto(kind, q, i, fu, text) == [kind |-> kind, q |-> q, i |-> i, fu |-> fu, text |-> text]

Event(P, before, at, after) ==
    [kind |-> P.kind, q |-> P.q, i |-> P.i, fu |-> P.fu, text |-> P.text,
     by |-> before.y, bn |-> before.n, y |-> at.y, n |-> at.n, after |-> after.y]

(* addWrappedText, line by line: checkPageBreak(), text at yPosition,      *)
(* yPosition += lineHeight                                                  *)
RECURSIVE TraceLines(_, _, _)
TraceLines(T, lines, P) ==
    IF lines = 0 THEN T
    ELSE LET at == checkPageBreak(T.L, 15)
             N == addWrappedText(T.L, 1)
         IN  IF N.n >= T.L.n
             THEN TraceLines([L |-> N, ev |-> Append(T.ev, Event(P, T.L, at, N))],
                             lines - 1, P)
             ELSE T

TraceCursor(T, N, P) == [L |-> N, ev |-> Append(T.ev, Event(P, T.L, N, N))]

TraceItem(T, item, fd, k, P) ==
    CASE item.op = "fix" -> TraceLines(T, item.v, P)
      [] item.op = "sel" ->
            LET text == renderSelectedRadioOption(StoredChoice(fd, k), RadioOptions)
            IN  TraceLines(T, 1, [P EXCEPT !.text = text,
                                           !.kind = IF Head(text) = SelectedMarker
                                                    THEN "selected" ELSE "noSelection"])
      [] item.op = "ans" ->
            TraceLines(T, AnsLines(fd, k),
                       [P EXCEPT !.kind = IF Filled(fd, k) THEN "answer" ELSE "placeholder"])
      [] item.op = "opt" -> TraceLines(T, OptLines(fd, k), [P EXCEPT !.kind = "answer"])
      [] OTHER -> TraceCursor(T, RenderItem(T.L, item, fd, k), [P EXCEPT !.kind = item.op])

(* Items i.. of one question; first is the position of its first          *)
(* follow-up item, and question marks the position of the question text.  *)
RECURSIVE TraceItems(_, _, _, _, _, _, _, _)
TraceItems(T, items, fd, k, q, i, first, question) ==
    IF i > Len(items) THEN T
    ELSE LET P == Proto(IF i = question THEN "question" ELSE "label",
                        q, i, i >= first /\ i < Len(items), <<>>)
             N == TraceItem(T, items[i], fd, k, P)
         IN  IF N.L.n >= T.L.n
             THEN TraceItems(N, items, fd, k, q, i + 1, first, question)
             ELSE N

RECURSIVE TraceQuestions(_, _, _, _, _)
TraceQuestions(T, qs, fd, k, q) ==
    IF q > Len(qs) THEN T
    ELSE LET items == QuestionItems(qs[q], fd, k)
             N == TraceItems(T, items, fd, k, q, 1, 4 + Len(qs[q].body), 2)
         IN  IF N.L.n >= T.L.n THEN TraceQuestions(N, qs, fd, k, q + 1) ELSE N

(* checkPageBreak(20) and addSectionTitle *)
TraceTitle(L, k) ==
    LET B == TraceCursor([L |-> L, ev |-> <<>>], checkPageBreak(L, 20),
                         Proto("brk", 0, 0, FALSE, <<>>))
        H == TraceLines(B, 1, Proto("title", 0, 0, FALSE, <<SectionTitle(k)>>))
    IN  TraceCursor(H, addSectionTitle(B.L), Proto("gap", 0, 0, FALSE, <<>>))

(* The events of addSectionNWithQuestions(sectionData) started at cursor L *)
TraceSection(L, fd, k) ==
    IF k = 1
    THEN TraceItems(TraceTitle(L, k), section1Items, fd, k, 1, 1, Len(section1Items) + 1, 1)
    ELSE LET Q == TraceQuestions(TraceTitle(L, k), Catalog(k), fd, k, 1)
         IN  TraceCursor(Q, [Q.L EXCEPT !.y = @ + 5], Proto("gap", 0, 0, FALSE, <<>>))

(* What is drawn before the first read of the missing object: the title,   *)
(* the first question text and the gap after it.                           *)
ItemsBeforeThrow(k) ==
    IF k = 1 THEN <<Fix(1), Gap(3)>>
    ELSE <<Brk(QuestionBreak(k)), Fix(1), Gap(QuestionGap(k))>>

TraceToThrow(L, fd, k) ==
    TraceItems(TraceTitle(L, k), ItemsBeforeThrow(k), fd, k, 1, 1,
               Len(ItemsBeforeThrow(k)) + 1, IF k = 1 THEN 1 ELSE 2)

----------------------------------------------------------------------------
(* Content rendering, one section at a time *)

RenderRecords == AnswerRecords \cup {EmptyRecord}

InitRender ==
    /\ formData \in RenderRecords
    /\ coverTemplatePages = 1
    /\ endTemplatePages = 1
    /\ clicks = 1
    /\ pc = "idle"
    /\ InitRun

(* await generateFrontCover() returns; yPosition = headerHeight + 5 *)
CoverGenerated ==
    /\ pc = "coverFetch"
    /\ coverDoc' = FrontCover(coverTemplatePages, run)
    /\ phasesDone' = phasesDone \cup {"cover"}
    /\ yPosition' = HeaderHeight + 5
    /\ pc' = "content"
    /\ UNCHANGED <<templates, run, clicks, contentDoc, sectionPageNumbers, tocEntries,
                   tocDoc, endDoc, finalPdf, downloads, notification, corsModal,
                   error, failedAt, prevToc>>
    /\ UNCHANGED renderVars
    /\ UNCHANGED <<invVars, wizardVars>>

restOfRun == <<templates, run, clicks, coverDoc, tocEntries, tocDoc, endDoc, finalPdf,
               downloads, corsModal, phasesDone, prevToc>>

(* A ToC call placed before the conditional sections *)
ContentCompleteEarly(processed) == processed >= NumMain

(* The statement after the last conditional section is the ToC call *)
ContentComplete(processed) == processed = NumSections

(* The page record of the next section, then the section *)
RenderSectionStep ==
    /\ pc = "content"
    /\ sec < NumSections
    /\ Rendered(formData, sec + 1)
    /\ ~SectionThrows(formData, sec + 1)
    /\ \E C \in {RenderNext([y |-> yPosition, doc |-> contentDoc,
                             table |-> sectionPageNumbers], formData, sec + 1)} :
          /\ yPosition' = C.y
          /\ contentDoc' = C.doc
          /\ sectionPageNumbers' = C.table
    /\ drawn' = TraceSection([y |-> yPosition, n |-> Len(contentDoc)], formData, sec + 1).ev
    /\ sec' = sec + 1
    /\ UNCHANGED <<restOfRun, pc, notification, error, failedAt>>
    /\ UNCHANGED <<invVars, wizardVars>>

(* if (formData.sectors.includes(...)) is false: the section is passed over *)
SkipSection ==
    /\ pc = "content"
    /\ sec < NumSections
    /\ ~Rendered(formData, sec + 1)
    /\ sec' = sec + 1
    /\ drawn' = <<>>
    /\ UNCHANGED <<restOfRun, pc, notification, error, failedAt,
                   yPosition, contentDoc, sectionPageNumbers>>
    /\ UNCHANGED <<invVars, wizardVars>>

(* A read of a property of undefined throws; the outer catch reports it *)
RenderThrows ==
    /\ pc = "content"
    /\ sec < NumSections
    /\ Rendered(formData, sec + 1)
    /\ SectionThrows(formData, sec + 1)
    /\ Caught(TypeErrorUndefined, "content", notification)
    /\ \E L \in {[y |-> yPosition, n |-> Len(contentDoc)]} :
       \E T \in {TraceToThrow(L, formData, sec + 1)} :
          /\ yPosition' = T.L.y
          /\ contentDoc' = DrawTitle(ExtendTo(contentDoc, T.L.n), TitleCursor(L).n,
                                     SectionTitle(sec + 1))
          /\ sectionPageNumbers' =
                Put(sectionPageNumbers, SectionTitle(sec + 1), RecordedPage(L, sec + 1))
          /\ drawn' = T.ev
    /\ UNCHANGED <<restOfRun, sec>>
    /\ UNCHANGED <<invVars, wizardVars>>

(* generateTableOfContents(sectionPageNumbers), the header and footer     *)
(* loop over the content pages, then the await of the end-page fetch       *)
GenerateToc ==
    /\ pc = "content"
    /\ ContentComplete(sec)
    /\ tocEntries' = TocEntries(sectionPageNumbers, formData)
    /\ tocDoc' = TocDocument(TocEntries(sectionPageNumbers, formData))
    /\ contentDoc' = WithFooters(contentDoc)
    /\ phasesDone' = phasesDone \cup {"content", "toc"}
    /\ notification' = NLoading
    /\ pc' = "endFetch"
    /\ UNCHANGED <<templates, run, clicks, yPosition, sectionPageNumbers, coverDoc,
                   endDoc, finalPdf, downloads, corsModal, error, failedAt, prevToc>>
    /\ UNCHANGED renderVars
    /\ UNCHANGED <<invVars, wizardVars>>

NextRender ==
    \/ StartGenerate
    \/ CoverFetchThrows
    \/ CoverParseFails
    \/ CoverGenerated
    \/ RenderSectionStep
    \/ SkipSection
    \/ RenderThrows
    \/ GenerateToc
    \/ EndFetchFails
    \/ EndFetched
    \/ MergeFails
    \/ MergeAndDownload

SpecRender == InitRender /\ [][NextRender]_vars

----------------------------------------------------------------------------
(* Properties *)

(* Merged-document page on which the heading of a section is drawn *)
TitlePages(t) == {i \in 1..Len(finalPdf) : t \in finalPdf[i].titles}

(* The titles the table of contents must list for a set of sectors *)
ExpectedTitles(S) ==
    mainSections
    \o (IF "ai" \in S THEN <<AiTitle>> ELSE <<>>)
    \o (IF "defi" \in S THEN <<DefiTitle>> ELSE <<>>)
    \o (IF "robotics" \in S THEN <<RoboticsTitle>> ELSE <<>>)

TitlesOf(entries) == [i \in 1..Len(entries) |-> entries[i].title]

FileProduced == \E i \in 1..Len(downloads) : downloads[i].run = run

AllPhases == {"cover", "content", "toc", "endFetch", "merge"}

(* C1: in a produced document, the page recorded for every section title  *)
(* is the page of the merged document on which that section's heading is  *)
(* drawn.                                                                  *)
C1_RecordedPageIsHeadingPage ==
    pc = "done" =>
        \A t \in DOMAIN sectionPageNumbers :
            sectionPageNumbers[t] \in TitlePages(t)

(* C2: once the table of contents is generated it lists exactly one entry *)
(* per included section, 13 + |S| of them, the 13 main sections in order  *)
(* followed by AI, DeFi, Robotics for the selected sectors.               *)
C2_TocEntriesMatchIncludedSections ==
    "toc" \in phasesDone =>
        /\ TitlesOf(tocEntries) = ExpectedTitles(formData.sectors)
        /\ Len(tocEntries) = NumMain + Cardinality(formData.sectors)

C2_Witness ==
    /\ "toc" \in phasesDone
    /\ formData.sectors = {"ai", "robotics"}
    /\ Len(tocEntries) = NumMain + 2

(* C3: in a produced document every content page at merged position i    *)
(* carries the footer "Page i of N", N the page count of the merged       *)
(* document.                                                               *)
C3_FooterIsMergedPosition ==
    pc = "done" =>
        \A i \in 1..Len(finalPdf) :
            finalPdf[i].src = "content" =>
                finalPdf[i].footer = <<i, Len(finalPdf)>>

(* C4: the recorded page numbers never decrease along the rendering       *)
(* order of the sections.                                                  *)
C4_RecordedPagesNonDecreasing ==
    "content" \in phasesDone =>
        \A k1, k2 \in 1..NumSections :
            (/\ k1 < k2
             /\ SectionTitle(k1) \in DOMAIN sectionPageNumbers
             /\ SectionTitle(k2) \in DOMAIN sectionPageNumbers)
            => sectionPageNumbers[SectionTitle(k1)] <= sectionPageNumbers[SectionTitle(k2)]

C4_Witness ==
    /\ "content" \in phasesDone
    /\ formData.sectors = Sectors
    /\ DOMAIN sectionPageNumbers = AllTitles
    /\ sectionPageNumbers[SectionTitle(1)] < sectionPageNumbers[SectionTitle(NumMain)]
    /\ sectionPageNumbers[SectionTitle(NumMain)] < sectionPageNumbers[SectionTitle(NumSections)]

(* C5: a second invocation on the same answer record and templates        *)
(* produces the same table of contents, titles and page numbers, as the   *)
(* first, although the submission timestamp differs.                      *)
C5_RerunSameToc ==
    (run >= 2 /\ "toc" \in phasesDone /\ prevToc # <<>>) => tocEntries = prevToc

C5_Witness ==
    /\ run = 2
    /\ pc = "done"
    /\ Len(downloads) = 2
    /\ prevToc # <<>>
    /\ tocEntries = prevToc
    /\ downloads[1].pages[1].stamp # downloads[2].pages[1].stamp

(* C6: the delivered document is the front cover, the table of contents,  *)
(* the content pages and the end pages, in that order, each page once.    *)
C6_MergeOrder ==
    pc = "done" =>
        /\ finalPdf = coverDoc \o tocDoc \o contentDoc \o endDoc
        /\ Len(finalPdf) = Len(coverDoc) + Len(tocDoc) + Len(contentDoc) + Len(endDoc)
        /\ Len(coverDoc) = coverTemplatePages
        /\ Len(endDoc) = endTemplatePages
        /\ downloads[Len(downloads)].pages = finalPdf

C6_Witness ==
    /\ pc = "done"
    /\ Len(coverDoc) = 2
    /\ Len(endDoc) = 2
    /\ Len(contentDoc) > 2
    /\ finalPdf[Len(finalPdf)].src = "end"

(* C7: when the fetch of the front-cover template throws, the run aborts, *)
(* no file is delivered, and the failure shown is of the fetch-failure    *)
(* kind, not the generic rendering failure.                               *)
C7_CoverFetchFailureKind ==
    (failedAt = "coverFetch") =>
        /\ pc = "failed"
        /\ ~FileProduced
        /\ notification \in {NCors, NCouldNotLoad}

(* C8: when the end-page template cannot be fetched (the request throws   *)
(* or answers with a not-OK status) the run stops before the merge, no    *)
(* file is delivered, and the failure shown is of the fetch-failure kind. *)
C8_EndFetchFailure ==
    (failedAt = "endFetch") =>
        /\ pc = "failed"
        /\ notification \in {NCors, NCouldNotLoad}
        /\ (corsModal <=> notification = NCors)
        /\ "merge" \notin phasesDone
        /\ finalPdf = <<>>
        /\ ~FileProduced

C8_Witness ==
    /\ pc = "failed"
    /\ failedAt = "endFetch"
    /\ error = EndPageNotOkError("404")
    /\ notification = NCouldNotLoad

----------------------------------------------------------------------------
(* Properties of the content rendering *)

TopOfContent == HeaderHeight + 5
BottomOfContent == PageHeight - Margin

(* drawn holds what section sec drew, completely *)
SectionDrawn == pc = "content" /\ sec >= 1 /\ Rendered(formData, sec)

Events(kinds) == {a \in 1..Len(drawn) : drawn[a].kind \in kinds}

DeclaredOption(value) == \E j \in 1..Len(RadioOptions) : RadioOptions[j].value = value

(* C11: for every answer record, the empty record included, the rendering *)
(* of each of the 13 fixed sections completes without raising an error.   *)
C11_FixedSectionsRenderWithoutError ==
    sec < NumMain => (failedAt # "content" /\ error # TypeErrorUndefined)

(* C12: every rendered question, composite sub-field and triggered        *)
(* follow-up field whose value is absent draws an explicit placeholder    *)
(* line; no absent field is rendered as nothing.                          *)
C12_AbsentFieldHasPlaceholder ==
    (SectionDrawn /\ sec >= 2 /\ ~Filled(formData, sec)) =>
        \A q \in 1..Len(Catalog(sec)) :
            \A i \in 1..Len(QuestionItems(Catalog(sec)[q], formData, sec)) :
                QuestionItems(Catalog(sec)[q], formData, sec)[i].op \in {"ans", "opt", "sel"}
                => \E a \in Events({"placeholder", "noSelection"}) :
                        drawn[a].q = q /\ drawn[a].i = i

(* C13: a single-choice question whose stored value is a declared option  *)
(* draws the selected-marker and that option's label; one whose stored    *)
(* value is no declared option, or absent, draws the unselected-marker    *)
(* followed by "No selection".                                            *)
C13_SingleChoiceText ==
    SectionDrawn =>
        \A a \in Events({"selected", "noSelection"}) :
            IF DeclaredOption(StoredChoice(formData, sec))
            THEN /\ Len(drawn[a].text) = 2
                 /\ drawn[a].text[1] = SelectedMarker
                 /\ \E j \in 1..Len(RadioOptions) :
                        /\ RadioOptions[j].value = StoredChoice(formData, sec)
                        /\ drawn[a].text[2] = RadioOptions[j].label
            ELSE drawn[a].text = <<UnselectedMarker, "No selection">>

(* C14: the follow-up of a single-choice question is drawn if and only if *)
(* the stored parent value equals the trigger value, whatever the         *)
(* follow-up field itself holds.                                          *)
C14_FollowUpIffTriggered ==
    (SectionDrawn /\ sec >= 2) =>
        \A q \in 1..Len(Catalog(sec)) :
            (Catalog(sec)[q].body = <<Sel>> /\ Catalog(sec)[q].fu # <<>>) =>
                ((\E a \in 1..Len(drawn) : drawn[a].q = q /\ drawn[a].fu)
                 <=> StoredChoice(formData, sec) = RadioOptions[1].value)

C14_Witness ==
    /\ SectionDrawn
    /\ sec = 2
    /\ Filled(formData, sec)
    /\ StoredChoice(formData, sec) = "no"
    /\ \E a \in Events({"selected"}) : drawn[a].q = 9
    /\ \A a \in 1..Len(drawn) : ~drawn[a].fu

(* C15: after every cursor advance of a rendering pass the vertical       *)
(* offset lies within [top-of-content, pageHeight - margin].              *)
C15_CursorWithinContentArea ==
    \A a \in 1..Len(drawn) : drawn[a].after \in TopOfContent..BottomOfContent

(* C16: every line written by addWrappedText is drawn at an offset that   *)
(* does not exceed the bottom margin; a line that would exceed it is      *)
(* drawn on a new page at the top-of-content offset, in the same step.    *)
C16_LinesAboveBottomMargin ==
    \A a \in Events(LineKinds) :
        /\ drawn[a].y <= BottomOfContent
        /\ drawn[a].n \in {drawn[a].bn, drawn[a].bn + 1}
        /\ drawn[a].n = drawn[a].bn => drawn[a].y = drawn[a].by
        /\ drawn[a].n = drawn[a].bn + 1 => drawn[a].y = TopOfContent

C16_Witness ==
    \E a \in Events(LineKinds) :
        /\ drawn[a].by <= BottomOfContent
        /\ drawn[a].n = drawn[a].bn + 1
        /\ drawn[a].y = TopOfContent
        /\ drawn[a].after = TopOfContent + LineHeight

(* C17: the first question of a section is drawn on the page of the       *)
(* section's title, wherever the section starts.                          *)
C17_TitleNotOrphaned ==
    SectionDrawn =>
        \A a \in Events({"title"}) : \A b \in Events({"question"}) :
            drawn[b].q = 1 => drawn[b].n = drawn[a].n

----------------------------------------------------------------------------
(* Properties of the phases of one run *)

PhaseOrder == <<"cover", "content", "toc", "endFetch", "merge">>

(* C18: the phases of a run complete in the order cover, content, ToC,    *)
(* end-page fetch, merge, download; the ToC is generated only after every *)
(* rendered section has been recorded and drawn.                          *)
C18_PhasesInOrder ==
    /\ \A i, j \in 1..Len(PhaseOrder) :
          (j < i /\ PhaseOrder[i] \in phasesDone) => PhaseOrder[j] \in phasesDone
    /\ FileProduced => "merge" \in phasesDone
    /\ pc = "content" => ("cover" \in phasesDone /\ tocDoc = <<>> /\ endDoc = <<>>)
    /\ sec > 0 => "cover" \in phasesDone
    /\ "toc" \in phasesDone =>
          /\ sec = NumSections
          /\ \A k \in 1..NumSections :
                Rendered(formData, k) =>
                    /\ SectionTitle(k) \in DOMAIN sectionPageNumbers
                    /\ \E p \in 1..Len(contentDoc) : SectionTitle(k) \in contentDoc[p].titles

C18_Witness ==
    /\ pc = "done"
    /\ FileProduced
    /\ formData.sectors = Sectors
    /\ sec = NumSections
    /\ DOMAIN sectionPageNumbers = AllTitles

----------------------------------------------------------------------------
(* generatePDF started again while an earlier invocation is suspended at   *)
(* an await: #downloadPdfBtn has no re-entrancy guard.  Each invocation    *)
(* runs the code between two awaits without interruption; yPosition,       *)
(* contentDoc and sectionPageNumbers are locals of its closure, the        *)
(* notification and the browser's downloads are shared.                    *)

ReentrantRecords ==
    {fd \in AnswerRecords : fd.filledUpTo \in {1, NumSections}}

(* Locals of every invocation taken from the first one *)
SharedLocals(i) == inv[1]

Locals(i) == inv[i]

InitReentrant ==
    /\ formData \in ReentrantRecords
    /\ coverTemplatePages = 1
    /\ endTemplatePages = 1
    /\ clicks = Cardinality(Invocations)
    /\ pc = "idle"
    /\ run = 0
    /\ yPosition = StartY
    /\ contentDoc = <<>>
    /\ sectionPageNumbers = EmptyTable
    /\ coverDoc = <<>>
    /\ tocEntries = <<>>
    /\ tocDoc = <<>>
    /\ endDoc = <<>>
    /\ finalPdf = <<>>
    /\ downloads = <<>>
    /\ notification = NWelcome
    /\ corsModal = FALSE
    /\ error = NoError
    /\ failedAt = "none"
    /\ phasesDone = {}
    /\ prevToc = <<>>
    /\ sec = 0
    /\ drawn = <<>>
    /\ inv = [i \in Invocations |-> NoLocals]
    /\ alone = RenderContent(NewContentDoc, formData).table
    /\ InitIdleWizard

sharedByInvocations == <<run, clicks, downloads, notification>>

notInvocation ==
    <<templates, pc, yPosition, contentDoc, sectionPageNumbers, coverDoc, tocEntries,
      tocDoc, endDoc, finalPdf, corsModal, error, failedAt, phasesDone, prevToc,
      renderVars, alone, wizardVars>>

(* A click on #downloadPdfBtn: the next invocation runs up to the await of *)
(* the cover template fetch.                                               *)
StartInvocation(i) ==
    /\ clicks > 0
    /\ i = run + 1
    /\ inv[i].pc = "idle"
    /\ run' = i
    /\ clicks' = clicks - 1
    /\ notification' = NGenerating
    /\ inv' = [inv EXCEPT ![i] = [pc |-> "coverFetch", yPosition |-> StartY,
                                  contentDoc |-> NewContentDoc,
                                  sectionPageNumbers |-> EmptyTable]]
    /\ UNCHANGED <<notInvocation, downloads>>

(* generateFrontCover returns to invocation i: content, ToC and footers,   *)
(* up to the await of the end-page fetch                                   *)
InvocationRenders(i) ==
    /\ inv[i].pc = "coverFetch"
    /\ \E C \in {RenderContent(Locals(i).contentDoc, formData)} :
          inv' = [inv EXCEPT ![i] = [pc |-> "endFetch", yPosition |-> C.y,
                                     contentDoc |-> WithFooters(C.doc),
                                     sectionPageNumbers |-> C.table]]
    /\ notification' = NLoading
    /\ UNCHANGED <<notInvocation, run, clicks, downloads>>

InvocationFetchesEnd(i) ==
    /\ inv[i].pc = "endFetch"
    /\ inv' = [inv EXCEPT ![i].pc = "merge"]
    /\ UNCHANGED <<notInvocation, sharedByInvocations>>

InvocationDownloads(i) ==
    /\ inv[i].pc = "merge"
    /\ inv' = [inv EXCEPT ![i].pc = "done"]
    /\ downloads' = Append(downloads,
          [run |-> i,
           pages |-> MergedPdf(FrontCover(coverTemplatePages, i),
                               TocDocument(TocEntries(inv[i].sectionPageNumbers, formData)),
                               inv[i].contentDoc, EndPages(endTemplatePages))])
    /\ notification' = NSuccess
    /\ UNCHANGED <<notInvocation, run, clicks>>

(* An awaited promise of invocation i rejects; its catch block reports it *)
InvocationFails(i) ==
    /\ inv[i].pc \in {"coverFetch", "endFetch", "merge"}
    /\ inv' = [inv EXCEPT ![i].pc = "failed"]
    /\ notification' = CatchNotification(ParseError, notification)
    /\ UNCHANGED <<notInvocation, run, clicks, downloads>>

NextReentrant ==
    \E i \in Invocations :
        \/ StartInvocation(i)
        \/ InvocationRenders(i)
        \/ InvocationFetchesEnd(i)
        \/ InvocationDownloads(i)
        \/ InvocationFails(i)

SpecReentrant == InitReentrant /\ [][NextReentrant]_vars

HasRendered(i) == inv[i].pc \in {"endFetch", "merge", "done"}

(* C19: when generatePDF is started again while an earlier invocation is  *)
(* suspended at an await, each invocation's recorded page numbers equal   *)
(* those of the same run executed alone.                                  *)
C19_InterleavedRunsIndependent ==
    \A i \in Invocations :
        HasRendered(i) => inv[i].sectionPageNumbers = alone

(* The second invocation started while the first was suspended after its  *)
(* rendering, and rendered while the first was still suspended.           *)
C19_Witness ==
    /\ inv[1].pc = "endFetch"
    /\ inv[2].pc = "endFetch"
    /\ inv[1].sectionPageNumbers = alone
    /\ inv[2].sectionPageNumbers = alone
    /\ Cardinality(DOMAIN alone) > NumMain

----------------------------------------------------------------------------
(* The step wizard: navigation, conditional steps and auto-save.  The form *)
(* is reduced to the sectors[] checkboxes and one other field; the         *)
(* timestamp that saveProgress stores next to the data is left out.        *)
(* Sections 1..NumMain carry their own number as data-section; the         *)
(* conditional section of sector SectorOf(k) is section k.                 *)

MaxPendingSaves == 1    \* setTimeout(saveProgress, 1000) calls pending at once

Answers == {"", "x"}

NPleaseFill == "Please fill in all fields correctly before proceeding."

ConditionalIds == (NumMain + 1)..NumSections

SectorsStep == 1        \* the step validateCurrentStep checks with validateSectors

(* The item written with a first step only *)
saveProgressFirstStep(step, sectors, value) ==
    [currentStep |-> 1, formData |-> <<sectors, value>>]

(* The item saveProgress writes: currentStep and $('#insuranceForm').serializeArray() *)
saveProgress(step, sectors, value) ==
    [currentStep |-> step, formData |-> <<sectors, value>>]

(* validateCurrentStep: the required fields of the step, and on step 1    *)
(* validateSectors                                                         *)
validateCurrentStep(fieldsValid) ==
    fieldsValid /\ (currentStep = 1 => checkedSectors # {})

(* The data-section attribute of section k *)
DataSection(d, k) == IF k <= NumMain THEN k ELSE d.dataSection[SectorOf(k)]

(* showStep(step): the class active goes to the sections that carry the  *)
(* step number.  The inline display of a conditional section is cleared   *)
(* here with the class set, and set to none in updateConditionalSteps     *)
(* with the class removed, so it is not a state of its own.               *)
showStep(d, step) ==
    [d EXCEPT !.active = {k \in 1..NumSections : DataSection(d, k) = step}]

(* updateNavigation() *)
updateNavigation(d, step, total) ==
    [d EXCEPT !.prevBtn = step # 1, !.nextBtn = step # total, !.submitBtn = step = total]

(* Every checked sector keeps the step number of its own section *)
StepNumbersFixed(sectors) ==
    [s \in Sectors |->
        IF s \in sectors THEN CHOOSE k \in ConditionalIds : SectorOf(k) = s ELSE 0]

(* let nextStep = 14; one step number per checked sector, in the order of *)
(* the three if statements                                                 *)
StepNumbers(sectors) ==
    [s \in Sectors |->
        IF s \in sectors
        THEN NumMain + Cardinality({k \in ConditionalIds :
                                      /\ SectorOf(k) \in sectors
                                      /\ \E h \in ConditionalIds : h >= k /\ SectorOf(h) = s})
        ELSE 0]

(* The buttons are refreshed only past the main steps *)
NavigationUpdatedPastMain(step) == step > NumMain

(* if (currentStep >= 13) { ...; updateNavigation(); updateStepIndicator(); } *)
NavigationUpdated(step) == step >= NumMain

(* updateConditionalSteps(), the sectors being the checked boxes *)
updateConditionalSteps(sectors) ==
    LET reset == [dom EXCEPT !.active = @ \ ConditionalIds,
                             !.dataSection = StepNumbers(sectors)]
        total == NumMain + Cardinality(sectors)
        beyond == currentStep >= NumMain /\ currentStep > total
        step == IF beyond THEN total ELSE currentStep
        shown == IF beyond THEN showStep(reset, step) ELSE reset
    IN  [totalSteps |-> total,
         currentStep |-> step,
         stepEnabled |-> sectors,
         dom |-> IF NavigationUpdated(currentStep)
                 THEN updateNavigation(shown, step, total)
                 ELSE shown]

InitWizard ==
    /\ formData = EmptyRecord
    /\ coverTemplatePages = 1
    /\ endTemplatePages = 1
    /\ clicks = 0
    /\ pc = "idle"
    /\ InitRun

notWizard ==
    <<templates, pc, run, clicks, yPosition, contentDoc, sectionPageNumbers, coverDoc,
      tocEntries, tocDoc, endDoc, finalPdf, downloads, corsModal, error, failedAt,
      phasesDone, prevToc, renderVars, invVars>>

(* What the wizard handlers leave alone besides the event record *)
wizardState ==
    <<currentStep, totalSteps, checkedSectors, answer, storage, pendingSaves,
      stepEnabled, dom, pendingTriggers>>

(* nextStep(), from #nextBtn or Ctrl+ArrowRight *)
nextStep(fieldsValid) ==
    IF ~validateCurrentStep(fieldsValid)
    THEN /\ notification' = NPleaseFill
         /\ UNCHANGED wizardState
    ELSE IF currentStep < totalSteps
         THEN /\ currentStep' = currentStep + 1
              /\ dom' = updateNavigation(showStep(dom, currentStep + 1),
                                         currentStep + 1, totalSteps)
              /\ storage' = saveProgress(currentStep + 1, checkedSectors, answer)
              /\ UNCHANGED <<notification, totalSteps, checkedSectors, answer,
                             pendingSaves, stepEnabled, pendingTriggers>>
         ELSE UNCHANGED <<notification, wizardState>>

(* prevStep(), from #prevBtn or Ctrl+ArrowLeft *)
prevStep ==
    IF currentStep > 1
    THEN /\ currentStep' = currentStep - 1
         /\ dom' = updateNavigation(showStep(dom, currentStep - 1),
                                    currentStep - 1, totalSteps)
         /\ UNCHANGED <<notification, totalSteps, checkedSectors, answer, storage,
                        pendingSaves, stepEnabled, pendingTriggers>>
    ELSE UNCHANGED <<notification, wizardState>>

(* Every step number from 14 on passes *)
isValidConditionalStepAny(targetStep) == TRUE

(* (aiStepEnabled && targetStep == aiStep) || ..., the step of a sector   *)
(* being the data-section attribute of its section                         *)
isValidConditionalStep(targetStep) ==
    \E s \in stepEnabled : dom.dataSection[s] = targetStep

(* Whether the click handler of a step indicator goes on to the step      *)
stepItemAccepted(targetStep, fieldsValid) ==
    /\ targetStep >= NumMain + 1 => isValidConditionalStep(targetStep)
    /\ \/ targetStep < currentStep
       \/ targetStep = currentStep + 1 /\ validateCurrentStep(fieldsValid)

(* The click handler of the step indicator that carries targetStep *)
stepItemClick(targetStep, fieldsValid) ==
    IF stepItemAccepted(targetStep, fieldsValid)
    THEN /\ currentStep' = targetStep
         /\ dom' = updateNavigation(showStep(dom, targetStep), targetStep, totalSteps)
         /\ UNCHANGED <<notification, totalSteps, checkedSectors, answer, storage,
                        pendingSaves, stepEnabled, pendingTriggers>>
    ELSE UNCHANGED <<notification, wizardState>>

(* The change handlers of a sectors[] box: updateConditionalSteps, and    *)
(* the handler of setupAutoSave schedules a save                           *)
sectorChange(s) ==
    \E sectors \in {IF s \in checkedSectors THEN checkedSectors \ {s}
                    ELSE checkedSectors \cup {s}} :
    \E U \in {updateConditionalSteps(sectors)} :
        /\ checkedSectors' = sectors
        /\ totalSteps' = U.totalSteps
        /\ currentStep' = U.currentStep
        /\ stepEnabled' = U.stepEnabled
        /\ dom' = U.dom
        /\ pendingSaves' = pendingSaves + 1
        /\ UNCHANGED <<notification, answer, storage, pendingTriggers>>

(* saveProgress() run by a timer or by #saveBtn *)
saved ==
    /\ storage' = saveProgress(currentStep, checkedSectors, answer)
    /\ UNCHANGED <<notification, currentStep, totalSteps, checkedSectors, answer,
                   stepEnabled, dom, pendingTriggers>>

NextClick ==
    /\ \E fieldsValid \in BOOLEAN : nextStep(fieldsValid)
    /\ UNCHANGED <<lastEvent, notWizard>>

PrevClick ==
    /\ prevStep
    /\ UNCHANGED <<lastEvent, notWizard>>

KeyArrowRight ==
    /\ currentStep < totalSteps
    /\ \E fieldsValid \in BOOLEAN : nextStep(fieldsValid)
    /\ UNCHANGED <<lastEvent, notWizard>>

KeyArrowLeft ==
    /\ currentStep > 1
    /\ prevStep
    /\ UNCHANGED <<lastEvent, notWizard>>

(* Click on a step indicator: only a completed step, or the next step     *)
(* when the current one validates; any other click returns at once        *)
StepItemClick ==
    /\ \E targetStep \in 1..NumSections : \E fieldsValid \in BOOLEAN :
          /\ stepItemAccepted(targetStep, fieldsValid)
          /\ stepItemClick(targetStep, fieldsValid)
    /\ UNCHANGED <<lastEvent, notWizard>>

(* The user changes a sectors[] box: the boxes belong to step 1, whose    *)
(* section is the one shown                                                *)
SectorChange ==
    /\ pendingSaves < MaxPendingSaves
    /\ SectorsStep \in dom.active
    /\ \E s \in Sectors : sectorChange(s)
    /\ UNCHANGED <<lastEvent, notWizard>>

(* Another field changes: the change handler schedules a save *)
FieldChange ==
    /\ pendingSaves < MaxPendingSaves
    /\ \E value \in Answers \ {answer} : answer' = value
    /\ pendingSaves' = pendingSaves + 1
    /\ UNCHANGED <<notification, currentStep, totalSteps, checkedSectors, storage,
                   stepEnabled, dom, pendingTriggers>>
    /\ UNCHANGED <<lastEvent, notWizard>>

(* setTimeout(saveProgress, 1000) fires *)
TimeoutSave ==
    /\ pendingSaves > 0
    /\ pendingSaves' = pendingSaves - 1
    /\ saved
    /\ UNCHANGED <<lastEvent, notWizard>>

(* setInterval(saveProgress, 30000) fires *)
IntervalSave ==
    /\ saved
    /\ UNCHANGED pendingSaves
    /\ UNCHANGED <<lastEvent, notWizard>>

(* Click on #saveBtn *)
SaveClick ==
    /\ saved
    /\ UNCHANGED pendingSaves
    /\ UNCHANGED <<lastEvent, notWizard>>

NextWizard ==
    \/ NextClick
    \/ PrevClick
    \/ KeyArrowRight
    \/ KeyArrowLeft
    \/ StepItemClick
    \/ SectorChange
    \/ FieldChange
    \/ TimeoutSave
    \/ IntervalSave
    \/ SaveClick

(* The interval timer and the post-change timers keep firing *)
SpecWizard ==
    /\ InitWizard
    /\ [][NextWizard]_vars
    /\ WF_vars(IntervalSave)
    /\ WF_vars(TimeoutSave)

WizardSaved ==
    /\ storage.currentStep = currentStep
    /\ storage.formData = <<checkedSectors, answer>>

(* C20: every change of the wizard state (a field or currentStep) is      *)
(* eventually written to local storage, the saved currentStep being the   *)
(* current one, given that the timers keep firing.                        *)
C20_ChangesEventuallySaved == (~WizardSaved) ~> WizardSaved

C20_Witness ==
    /\ WizardSaved
    /\ currentStep = NumMain + 1
    /\ checkedSectors = {"defi"}
    /\ answer = "x"
    /\ pendingSaves = 0

----------------------------------------------------------------------------
(* The ToC's own pages *)

TocPagesOf(doc) == {i \in 1..Len(doc) : doc[i].src = "toc"}

(* C21: for every selection of sectors the ToC document has exactly one   *)
(* page, the one page counted for it in the offset of the recorded page   *)
(* numbers, and it contributes exactly that page to the merged document.  *)
C21_TocHasOnePage ==
    /\ "toc" \in phasesDone =>
          /\ Len(tocDoc) = 1
          /\ Len(tocDoc) = CoverOffset - 1
    /\ pc = "done" => Cardinality(TocPagesOf(finalPdf)) = Len(tocDoc)

C21_Witness ==
    /\ pc = "done"
    /\ formData.sectors = Sectors
    /\ Len(tocEntries) = NumSections
    /\ Cardinality(TocPagesOf(finalPdf)) = 1

----------------------------------------------------------------------------
(* Multi-choice questions: the sectors list of section 1, the prior-       *)
(* incidents list of section 13 and the checkbox groups of the robotics    *)
(* section.  A stored list is a set of option values; the incidents are    *)
(* one field per option.                                                    *)

sectorOptions ==
    <<[value |-> "ai", label |-> "Artificial Intelligence"],
      [value |-> "defi", label |-> "Decentralized Finance & Digital Assets"],
      [value |-> "robotics", label |-> "Autonomous Robotics"]>>

incidentOptions ==
    <<[field |-> "incident_privacy_claims", label |-> "privacy claims"],
      [field |-> "incident_breach_notification", label |-> "breach notification"],
      [field |-> "incident_extortion", label |-> "extortion"],
      [field |-> "incident_network_outage", label |-> "network outage"],
      [field |-> "incident_government_action", label |-> "government action"],
      [field |-> "incident_ip_complaint", label |-> "ip complaint"],
      [field |-> "incident_policy_covered", label |-> "policy covered"]>>

navigationOptions ==
    <<[value |-> "gps", label |-> "GPS"],
      [value |-> "slam", label |-> "SLAM"],
      [value |-> "lidar", label |-> "LiDAR"],
      [value |-> "computer_vision", label |-> "Computer Vision"],
      [value |-> "beacon_infrared", label |-> "Beacon/Infrared"],
      [value |-> "other", label |-> "Other"]>>

contractOptions ==
    <<[value |-> "limitations_liability", label |-> "Limitations of liability?"],
      [value |-> "indemnification", label |-> "Indemnification terms?"],
      [value |-> "insurance_requirements", label |-> "Insurance requirements?"]>>

(* The checkbox questions of roboticsQuestions *)
roboticsCheckboxes ==
    [robotics_navigation |-> [options |-> navigationOptions, followUp |-> "other"],
     robotics_contract_terms |-> [options |-> contractOptions, followUp |-> Absent]]

ValuesOf(options) == {options[j].value : j \in 1..Len(options)}
FieldsOf(options) == {options[j].field : j \in 1..Len(options)}

MarkerLine(isSelected, label) ==
    [kind |-> "marker",
     marker |-> IF isSelected THEN SelectedMarker ELSE UnselectedMarker,
     label |-> label]

FollowUpLines(label) ==
    <<[kind |-> "followUpLabel", marker |-> Absent, label |-> label],
      [kind |-> "followUpAnswer", marker |-> Absent, label |-> label]>>

(* sectorOptions.forEach: formData.sectors.includes(option.value) *)
sectorLines(sectors) ==
    [j \in 1..Len(sectorOptions) |->
        MarkerLine(sectorOptions[j].value \in sectors, sectorOptions[j].label)]

(* An option counts as selected as soon as the section holds answers *)
incidentSelectedAnyValue(sectionData, option) == sectionData.given

(* sectionData ? sectionData[option.field] : null, then fieldValue === 'yes' *)
incidentSelected(sectionData, option) ==
    sectionData.given /\ sectionData.value[option.field] = "yes"

(* q.options.forEach of section 13, then the follow-up when any is selected *)
incidentLines(sectionData) ==
    [j \in 1..Len(incidentOptions) |->
        MarkerLine(incidentSelected(sectionData, incidentOptions[j]),
                   incidentOptions[j].label)]
    \o (IF \E j \in 1..Len(incidentOptions) :
               incidentSelected(sectionData, incidentOptions[j])
        THEN FollowUpLines("incident_details_text")
        ELSE <<>>)

(* Array.isArray(fieldValue) && fieldValue.includes(option.value); a stored *)
(* list is a set, and given is false when there is none                     *)
roboticsSelected(fieldValue, option) ==
    fieldValue.given /\ option.value \in fieldValue.value

(* q.options.forEach of the robotics section: the marker line, and the     *)
(* follow-up right after the option that is its condition                  *)
RECURSIVE roboticsLines(_, _, _)
roboticsLines(q, fieldValue, j) ==
    IF j > Len(q.options) THEN <<>>
    ELSE LET isSelected == roboticsSelected(fieldValue, q.options[j])
         IN  <<MarkerLine(isSelected, q.options[j].label)>>
             \o (IF q.followUp # Absent /\ q.options[j].value = q.followUp /\ isSelected
                 THEN FollowUpLines(q.followUp)
                 ELSE <<>>)
             \o roboticsLines(q, fieldValue, j + 1)

IncidentAnswers == {"yes", Absent}

(* A stored value, or none: sectionData or the field is missing *)
Stored(values) ==
    [given : {TRUE}, value : values] \cup {[given |-> FALSE, value |-> {}]}

(* The stored value of one multi-choice question *)
MultiChoiceInputs ==
    [question : {"sectors"},
     stored : [given : {TRUE}, value : SUBSET ValuesOf(sectorOptions)]]
    \cup [question : {"incidents"},
          stored : Stored([FieldsOf(incidentOptions) -> IncidentAnswers])]
    \cup [question : {"robotics_navigation"},
          stored : Stored(SUBSET ValuesOf(navigationOptions))]
    \cup [question : {"robotics_contract_terms"},
          stored : Stored(SUBSET ValuesOf(contractOptions))]

InitMultiChoice ==
    /\ formData \in MultiChoiceInputs
    /\ coverTemplatePages = 1
    /\ endTemplatePages = 1
    /\ clicks = 0
    /\ pc = "idle"
    /\ InitRun

notDrawn ==
    <<templates, pc, run, clicks, yPosition, contentDoc, sectionPageNumbers, coverDoc,
      tocEntries, tocDoc, endDoc, finalPdf, downloads, notification, corsModal, error,
      failedAt, phasesDone, prevToc, invVars, wizardVars>>

DrawSectorOptions ==
    /\ sec = 0
    /\ formData.question = "sectors"
    /\ drawn' = sectorLines(formData.stored.value)
    /\ sec' = 1
    /\ UNCHANGED notDrawn

DrawIncidentOptions ==
    /\ sec = 0
    /\ formData.question = "incidents"
    /\ drawn' = incidentLines(formData.stored)
    /\ sec' = 1
    /\ UNCHANGED notDrawn

DrawRoboticsOptions ==
    /\ sec = 0
    /\ formData.question \in DOMAIN roboticsCheckboxes
    /\ drawn' = roboticsLines(roboticsCheckboxes[formData.question], formData.stored, 1)
    /\ sec' = 1
    /\ UNCHANGED notDrawn

NextMultiChoice ==
    \/ DrawSectorOptions
    \/ DrawIncidentOptions
    \/ DrawRoboticsOptions

SpecMultiChoice == InitMultiChoice /\ [][NextMultiChoice]_vars

DeclaredOptions(question) ==
    CASE question = "sectors" -> sectorOptions
      [] question = "incidents" -> incidentOptions
      [] OTHER -> roboticsCheckboxes[question].options

(* Whether the record holds option j of the question as selected *)
SelectedInRecord(input, j) ==
    CASE ~input.stored.given -> FALSE
      [] input.question = "incidents" ->
            input.stored.value[incidentOptions[j].field] = "yes"
      [] OTHER -> DeclaredOptions(input.question)[j].value \in input.stored.value

IsMarkerLine(line) == line.kind = "marker"

----------------------------------------------------------------------------
(* Text cells of the tables of sections 3 and 4.  A text is a sequence of  *)
(* characters.                                                              *)

MaxCellLength == 32     \* longest field value entered

NameBudget == 25
ProjectNameBudget == 30
EllipsisLength == 3

Ellipsis == <<".", ".", ".">>

TextOf(n) == [i \in 1..n |-> "x"]

NotProvided == <<"N", "o", "t", " ", "p", "r", "o", "v", "i", "d", "e", "d">>
NoDetails == <<"N", "o", " ", "d", "e", "t", "a", "i", "l", "s">>
NotApplicable == <<"N", "/", "A">>

(* sectionData[field] || fallback *)
OrElse(value, fallback) == IF value = <<>> THEN fallback ELSE value

(* text.length > budget ? text.substring(0, budget - 3) + '...' : text *)
Truncated(text, budget) ==
    IF Len(text) > budget
    THEN SubSeq(text, 1, budget - EllipsisLength) \o Ellipsis
    ELSE text

(* The text cells of a client_table row: name, service, duration *)
clientRow(r) ==
    [name |-> Truncated(OrElse(r.name, NotProvided), NameBudget),
     second |-> Truncated(OrElse(r.second, NotProvided), NameBudget),
     duration |-> OrElse(r.duration, NotProvided)]

(* The text cells of a project_table row: name, client, duration *)
projectRow(r) ==
    [name |-> Truncated(OrElse(r.name, NotProvided), ProjectNameBudget),
     second |-> Truncated(OrElse(r.second, NotProvided), NameBudget),
     duration |-> OrElse(r.duration, NotProvided)]

(* The details cell of a risk_areas row *)
riskRow(r) ==
    [details |-> IF r.selected = "yes" THEN OrElse(r.details, NoDetails)
                 ELSE NotApplicable]

CellTexts == {TextOf(n) : n \in 0..MaxCellLength}

TableInputs ==
    [table : {"client_table", "project_table"},
     name : CellTexts, second : CellTexts,
     duration : {TextOf(0), TextOf(MaxCellLength)}]
    \cup [table : {"risk_areas"}, selected : {"yes", "no", Absent}, details : CellTexts]

InitTable ==
    /\ formData \in TableInputs
    /\ coverTemplatePages = 1
    /\ endTemplatePages = 1
    /\ clicks = 0
    /\ pc = "idle"
    /\ InitRun

BuildClientRow ==
    /\ sec = 0
    /\ formData.table = "client_table"
    /\ drawn' = clientRow(formData)
    /\ sec' = 1
    /\ UNCHANGED notDrawn

BuildProjectRow ==
    /\ sec = 0
    /\ formData.table = "project_table"
    /\ drawn' = projectRow(formData)
    /\ sec' = 1
    /\ UNCHANGED notDrawn

BuildRiskRow ==
    /\ sec = 0
    /\ formData.table = "risk_areas"
    /\ drawn' = riskRow(formData)
    /\ sec' = 1
    /\ UNCHANGED notDrawn

NextTable ==
    \/ BuildClientRow
    \/ BuildProjectRow
    \/ BuildRiskRow

SpecTable == InitTable /\ [][NextTable]_vars

(* The truncated free-text columns of a table and their budgets *)
Budgets(table) ==
    CASE table = "client_table" -> [name |-> NameBudget, second |-> NameBudget]
      [] table = "project_table" -> [name |-> ProjectNameBudget, second |-> NameBudget]
      [] table = "risk_areas" -> [details |-> NameBudget]

WithinBudget(value, cell, budget) ==
    /\ Len(cell) <= budget
    /\ Len(value) <= budget => cell = value
    /\ Len(value) > budget =>
          /\ Len(cell) = budget
          /\ SubSeq(cell, 1, budget - EllipsisLength) = SubSeq(value, 1, budget - EllipsisLength)
          /\ SubSeq(cell, budget - EllipsisLength + 1, budget) = Ellipsis

(* C23: in every tabular repeat-group (top clients, largest projects,     *)
(* risk-area matrix) every free-text cell of a row has at most the        *)
(* column's character budget: a value within the budget is shown          *)
(* unchanged, a longer one is cut so that text plus '...' has exactly the *)
(* budget length.                                                          *)
C23_CellsWithinBudget ==
    sec = 1 =>
        \A column \in DOMAIN Budgets(formData.table) :
            formData[column] # <<>> /\ (formData.table = "risk_areas" => formData.selected = "yes")
            => WithinBudget(formData[column], drawn[column], Budgets(formData.table)[column])

----------------------------------------------------------------------------
(* Navigation observed event by event: each user event is recorded with   *)
(* the step its indicator carries and with what validateCurrentStep       *)
(* returned when the handler called it.                                    *)

Logged(handler, targetStep, outcome) ==
    [handler |-> handler, target |-> targetStep, validated |-> outcome]

Outcome(fieldsValid) == IF validateCurrentStep(fieldsValid) THEN "passed" ELSE "failed"

(* targetStep < currentStep || (targetStep === currentStep + 1 &&         *)
(* validateCurrentStep()): the validation runs only for the next step     *)
stepItemValidates(targetStep) ==
    /\ targetStep >= NumMain + 1 => isValidConditionalStep(targetStep)
    /\ targetStep = currentStep + 1

(* Click on #nextBtn while it is shown *)
LoggedNextClick ==
    /\ dom.nextBtn
    /\ \E fieldsValid \in BOOLEAN :
          /\ nextStep(fieldsValid)
          /\ lastEvent' = Logged("next", 0, Outcome(fieldsValid))
    /\ UNCHANGED notWizard

(* Click on #prevBtn while it is shown *)
LoggedPrevClick ==
    /\ dom.prevBtn
    /\ prevStep
    /\ lastEvent' = Logged("prev", 0, "notRun")
    /\ UNCHANGED notWizard

(* Ctrl+ArrowRight: e.key === 'ArrowRight' && currentStep < totalSteps *)
LoggedKeyArrowRight ==
    /\ currentStep < totalSteps
    /\ \E fieldsValid \in BOOLEAN :
          /\ nextStep(fieldsValid)
          /\ lastEvent' = Logged("keyRight", 0, Outcome(fieldsValid))
    /\ UNCHANGED notWizard

(* Click on any step indicator, whatever step number it carries; the      *)
(* fields of the step matter only when the handler validates              *)
LoggedStepItemClick ==
    /\ \E targetStep \in 1..NumSections :
       \E fieldsValid \in IF stepItemValidates(targetStep) THEN BOOLEAN ELSE {TRUE} :
          /\ stepItemClick(targetStep, fieldsValid)
          /\ lastEvent' = Logged("stepItem", targetStep,
                                 IF stepItemValidates(targetStep)
                                 THEN Outcome(fieldsValid) ELSE "notRun")
    /\ UNCHANGED notWizard

(* The user changes a sectors[] box on step 1 *)
LoggedSectorChange ==
    /\ pendingSaves < MaxPendingSaves
    /\ SectorsStep \in dom.active
    /\ \E s \in Sectors : sectorChange(s)
    /\ lastEvent' = Logged("sector", 0, "notRun")
    /\ UNCHANGED notWizard

NextNavigation ==
    \/ LoggedNextClick
    \/ LoggedPrevClick
    \/ LoggedKeyArrowRight
    \/ LoggedStepItemClick
    \/ LoggedSectorChange
    \/ TimeoutSave

SpecNavigation == InitWizard /\ [][NextNavigation]_vars

(* C24: after every sector checkbox change totalSteps is 13 plus the      *)
(* number of checked sectors, the conditional sections of the checked     *)
(* sectors carry the consecutive step numbers 14, 15, ... in the order    *)
(* AI, DeFi, Robotics, and the section of an unchecked sector carries no  *)
(* step number.                                                            *)
C24_ConditionalStepsNumbered ==
    lastEvent.handler = "sector" =>
        /\ totalSteps = NumMain + Cardinality(checkedSectors)
        /\ \A k \in ConditionalIds :
              dom.dataSection[SectorOf(k)] =
                  IF SectorOf(k) \in checkedSectors
                  THEN NumMain + Cardinality({h \in ConditionalIds :
                                                h <= k /\ SectorOf(h) \in checkedSectors})
                  ELSE 0

(* DeFi and Robotics checked without AI: their sections are steps 14, 15 *)
C24_Witness ==
    /\ lastEvent.handler = "sector"
    /\ checkedSectors = {"defi", "robotics"}
    /\ totalSteps = NumMain + 2
    /\ dom.dataSection["ai"] = 0
    /\ dom.dataSection["defi"] = NumMain + 1
    /\ dom.dataSection["robotics"] = NumMain + 2

ForwardHandlers == {"next", "keyRight", "stepItem"}

(* C25: through the Next button, Ctrl+ArrowRight and a click on a step    *)
(* indicator currentStep increases only by exactly one and only when      *)
(* validateCurrentStep held for the step being left; when the validation  *)
(* fails, currentStep and the shown section are unchanged and the error   *)
(* notification is shown.                                                  *)
C25_ForwardOnlyWhenValid ==
    [][lastEvent'.handler \in ForwardHandlers =>
          /\ currentStep' > currentStep
             => /\ currentStep' = currentStep + 1
                /\ lastEvent'.validated = "passed"
          /\ lastEvent'.validated = "failed"
             => /\ currentStep' = currentStep
                /\ dom'.active = dom.active
                /\ notification' = NPleaseFill]_vars

(* C26: a click on a step indicator whose step number is 14 or more and   *)
(* is not the step number of an enabled conditional section, or is more   *)
(* than one ahead of currentStep, leaves currentStep, totalSteps, the     *)
(* sector flags and the shown section unchanged.                           *)
C26_RejectedClickChangesNothing ==
    [][(/\ lastEvent'.handler = "stepItem"
        /\ \/ /\ lastEvent'.target >= NumMain + 1
              /\ ~\E s \in stepEnabled : dom.dataSection[s] = lastEvent'.target
           \/ lastEvent'.target > currentStep + 1)
       => /\ currentStep' = currentStep
          /\ totalSteps' = totalSteps
          /\ stepEnabled' = stepEnabled
          /\ dom'.active = dom.active]_vars

(* On step 13 with only AI enabled, the indicator that carries 15 was     *)
(* clicked                                                                 *)
C26_Witness ==
    /\ lastEvent = Logged("stepItem", NumMain + 2, "notRun")
    /\ currentStep = NumMain
    /\ totalSteps = NumMain + 1
    /\ stepEnabled = {"ai"}
    /\ dom.active = {NumMain}

----------------------------------------------------------------------------
(* Restore of saved progress: the page is loaded again, loadSavedData      *)
(* restores the saved item and defers the change triggers by 100 ms.       *)

(* The restored step is always the first one *)
RestoredStepFirst(item) == 1

(* currentStep = data.currentStep || 1 *)
RestoredStep(item) == IF item.currentStep = 0 THEN 1 ELSE item.currentStep

(* A page load: the globals and the form start anew, then loadSavedData,  *)
(* updateStepIndicator, updateNavigation and the welcome notification     *)
Reload ==
    /\ \E restoring \in {storage # NoSave} :
       \E step \in {IF restoring THEN RestoredStep(storage) ELSE 1} :
          /\ currentStep' = step
          /\ checkedSectors' = IF restoring THEN storage.formData[1] ELSE {}
          /\ answer' = IF restoring THEN storage.formData[2] ELSE ""
          /\ dom' = updateNavigation(IF restoring THEN showStep(InitialDom, step)
                                     ELSE InitialDom,
                                     step, NumMain)
          /\ pendingTriggers' = restoring
    /\ totalSteps' = NumMain
    /\ stepEnabled' = {}
    /\ pendingSaves' = 0
    /\ notification' = NWelcome
    /\ UNCHANGED <<storage, lastEvent, notWizard>>

(* The deferred triggers run: the change handlers of the sectors[] boxes, *)
(* among them updateConditionalSteps and the scheduling of a save         *)
RestoreTriggers ==
    /\ pendingTriggers
    /\ \E U \in {updateConditionalSteps(checkedSectors)} :
          /\ totalSteps' = U.totalSteps
          /\ currentStep' = U.currentStep
          /\ stepEnabled' = U.stepEnabled
          /\ dom' = U.dom
    /\ pendingSaves' = IF pendingSaves < MaxPendingSaves THEN pendingSaves + 1
                       ELSE pendingSaves
    /\ pendingTriggers' = FALSE
    /\ UNCHANGED <<notification, checkedSectors, answer, storage>>
    /\ UNCHANGED <<lastEvent, notWizard>>

NextRestore ==
    \/ NextWizard
    \/ Reload
    \/ RestoreTriggers

SpecRestore == InitWizard /\ [][NextRestore]_vars

(* C27: in every state reachable by navigation, sector changes and        *)
(* restore of saved progress, 1 <= currentStep <= totalSteps.             *)
C27_StepWithinRange == 1 <= currentStep /\ currentStep <= totalSteps

(* C28: in every reachable state, once the deferred triggers of a restore *)
(* have run, exactly one form section is active, and it is the section    *)
(* whose step number equals currentStep.                                   *)
C28_OneSectionShown ==
    ~pendingTriggers =>
        \E k \in 1..NumSections :
            /\ dom.active = {k}
            /\ DataSection(dom, k) = currentStep

(* C29: the Previous button is hidden if and only if currentStep = 1, and *)
(* the Submit button is shown, with Next hidden, if and only if           *)
(* currentStep = totalSteps, also when totalSteps changes while            *)
(* currentStep is below 13.                                                *)
C29_ButtonsFollowStep ==
    /\ dom.prevBtn <=> currentStep # 1
    /\ dom.submitBtn <=> currentStep = totalSteps
    /\ dom.nextBtn <=> currentStep # totalSteps

C29_Witness ==
    /\ currentStep = NumMain + 1
    /\ totalSteps = NumMain + 1
    /\ dom.submitBtn
    /\ ~dom.nextBtn
    /\ dom.prevBtn

(* C30: a save followed by a restore on a freshly loaded form, its        *)
(* deferred triggers included, gives the saved currentStep and the saved  *)
(* set of checked sectors, and with them the same totalSteps, sector      *)
(* flags and conditional step numbers.                                     *)
(* The first conjunct is the page load with a saved item, the second the  *)
(* deferred triggers when nothing changed the restored form in between.   *)
C30_RestoreGivesSavedState ==
    [][/\ (~pendingTriggers /\ pendingTriggers')
          => /\ storage' = storage
             /\ currentStep' = storage.currentStep
             /\ checkedSectors' = storage.formData[1]
       /\ (/\ pendingTriggers
           /\ ~pendingTriggers'
           /\ checkedSectors = storage.formData[1]
           /\ currentStep = storage.currentStep)
          => /\ storage' = storage
             /\ currentStep' = storage.currentStep
             /\ checkedSectors' = storage.formData[1]
             /\ totalSteps' = NumMain + Cardinality(storage.formData[1])
             /\ stepEnabled' = storage.formData[1]
             /\ dom'.dataSection = StepNumbers(storage.formData[1])]_vars

C30_Witness ==
    /\ ~pendingTriggers
    /\ storage = saveProgress(NumSections - 1, {"ai", "robotics"}, "x")
    /\ currentStep = NumSections - 1
    /\ checkedSectors = {"ai", "robotics"}
    /\ answer = "x"
    /\ totalSteps = NumSections - 1
    /\ stepEnabled = {"ai", "robotics"}
    /\ dom.dataSection = [s \in Sectors |-> IF s = "ai" THEN NumMain + 1
                                           ELSE IF s = "robotics" THEN NumMain + 2
                                           ELSE 0]
    /\ pendingSaves = MaxPendingSaves

====
